---------------------------- MODULE Spec2Model ----------------------------
(***************************************************************************)
(* The room state machine of src/app.py: room registry, role assignment,   *)
(* night actions and night resolution, day votes and day resolution, the   *)
(* win check and the phase timer.                                          *)
(*                                                                         *)
(* A handler of the source is one operator that maps the room it works on  *)
(* to the room it leaves behind plus the events it emitted; the action of  *)
(* that handler applies the operator to the registry.  Python's None is    *)
(* the number 0 where a sid is expected and the string "none" where a role *)
(* or a winner is expected.  Dicts that the code iterates (players,        *)
(* day_votes) are sequences in insertion order.                            *)
(***************************************************************************)
EXTENDS Integers, Sequences, FiniteSets, TLC

\* ---- bounds of the model
NumSids == 4          \* connection ids 1..NumSids
MaxRound == 2         \* the round counter is not advanced past this
NumTargets == 2       \* the sids a request names as its target: 1..NumTargets
MaxDisruptions == 1   \* leaves, re-joins, repeated starts, off-phase submissions per run
MaxChat == 1          \* chat messages per run
MaxQuota == 5         \* role quotas of a room configuration: -1..MaxQuota
MaxPlayers == 8       \* player counts distribute_roles is applied to on its own

\* ---- program constants
None == 0
MinPlayers == 4
DefaultMafia == 2
DefaultDetective == 1
DefaultDoctor == 1

PHASE_NIGHT == "night"
PHASE_DAY == "day"
PHASE_ENDED == "ended"

ROLES == {"mafia", "detective", "doctor", "villager"}

Sids == 1..NumSids
Targets == 1..NumTargets
RoomIds == {"r1"}
Actions == {"kill", "heal", "investigate"}

Min(a, b) == IF a <= b THEN a ELSE b
Max(a, b) == IF a >= b THEN a ELSE b
Range(f) == {f[i] : i \in DOMAIN f}

RECURSIVE Repeat(_, _)
Repeat(x, n) == IF n <= 0 THEN <<>> ELSE <<x>> \o Repeat(x, n - 1)

\* ---- events: who receives them (Room: everybody subscribed to the room)
Room == 0
Caller == 0 - 1      \* an emit with no room argument goes to the requesting connection
\* sid and who are the sids an event carries (None for none), info the rest
Ev(name, to, sid, who, info) == [ev |-> name, to |-> to, sid |-> sid, who |-> who, info |-> info]

\* a sequence of events has one of this name; the first of them
Has(o, name) == \E i \in DOMAIN o : o[i].ev = name
The(o, name) == o[CHOOSE i \in DOMAIN o : o[i].ev = name]

------------------------------------------------------------------------------
\* ---- pure game logic

\* a dealer that takes the quotas as they are, without the caps
distribute_roles_uncapped(player_count, mafia_count, detective_count, doctor_count) ==
    IF player_count < MinPlayers THEN <<>>
    ELSE LET r3 == Repeat("mafia", mafia_count) \o Repeat("detective", detective_count)
                      \o Repeat("doctor", doctor_count)
         IN  r3 \o Repeat("villager", player_count - Len(r3))

\* distribute_roles before the shuffle; <<>> stands for the None it returns
distribute_roles(player_count, mafia_count, detective_count, doctor_count) ==
    IF player_count < MinPlayers THEN <<>>
    ELSE LET mafia_actual == Min(mafia_count, Max(1, player_count - 1))
             r1 == Repeat("mafia", mafia_actual)
             detective_actual == Min(detective_count, player_count - Len(r1))
             r2 == r1 \o Repeat("detective", detective_actual)
             doctor_actual == Min(doctor_count, player_count - Len(r2))
             r3 == r2 \o Repeat("doctor", doctor_actual)
             villager_actual == player_count - Len(r3)
         IN  r3 \o Repeat("villager", villager_actual)

Count(seq, x) == Cardinality({i \in DOMAIN seq : seq[i] = x})

\* random.shuffle: every rearrangement of the tokens
Shuffles(roles) ==
    {p \in [DOMAIN roles -> Range(roles)] : \A x \in Range(roles) : Count(p, x) = Count(roles, x)}

\* the players dict of a room r, as the win check reads it
AlivePlayers(r) == {s \in Range(r.players) : r.alive[s]}
MafiaAlive(r) == Cardinality({s \in AlivePlayers(r) : r.role[s] = "mafia"})
VillagersAlive(r) == Cardinality({s \in AlivePlayers(r) : r.role[s] # "mafia"})

check_win_condition(r) ==
    IF AlivePlayers(r) = {} THEN "none"
    ELSE IF MafiaAlive(r) = 0 THEN "villagers"
    ELSE IF MafiaAlive(r) >= VillagersAlive(r) THEN "mafia"
    ELSE "none"

\* get_or_create_room's fresh room
NewRoom ==
    [players |-> <<>>,
     role |-> [s \in Sids |-> "none"],
     alive |-> [s \in Sids |-> TRUE],
     phase |-> PHASE_NIGHT,
     round |-> 1,
     mafia_target |-> None,
     doctor_target |-> None,
     detective_target |-> None,
     day_votes |-> <<>>,
     night_actions_ready |-> {},
     public_chat |-> <<>>,
     mafia_chat |-> <<>>,
     phase_timer |-> FALSE]


\* a handler's result: the room it leaves, the events it emitted, whether it
\* reached start_phase_timer, and the status it wrote to the GameRoom row
Result(r, events, arm, status) == [room |-> r, out |-> events, arm |-> arm, status |-> status]

InRoom(r, sid) == sid \in Range(r.players)

------------------------------------------------------------------------------
\* ---- night

\* phase_change carries 'killed'; night_outcome carries killed_sid (sid), the
\* player killed_nickname names (who: None for "Nobody") and which of the two
\* messages was sent (info)
NightEvents(killed, named, dies) ==
    << Ev("phase_transition", Room, None, None, PHASE_DAY),
       Ev("phase_change", Room, killed, None, PHASE_DAY),
       Ev("night_outcome", Room, IF named THEN killed ELSE None,
          IF dies THEN killed ELSE None,
          IF named THEN "found_dead" ELSE "everyone_survived") >>

\* a resolution that takes no notice of the doctor
KillStandsHealed(killed, healed) == killed # None

\* "killed and killed != healed"
KillStands(killed, healed) == killed # None /\ killed # healed

end_night_phase(r) ==
    LET killed == r.mafia_target
        healed == r.doctor_target
        named == KillStands(killed, healed)
        dies == named /\ InRoom(r, killed)
        r1 == [r EXCEPT !.alive = IF dies THEN [r.alive EXCEPT ![killed] = FALSE] ELSE r.alive,
                        !.mafia_target = None,
                        !.doctor_target = None,
                        !.detective_target = None,
                        !.day_votes = <<>>,
                        !.night_actions_ready = {},
                        !.phase = PHASE_DAY]
    IN  Result(r1, NightEvents(killed, named, dies), TRUE, "same")

\* living players of a role, and those of them that have acted
RoleAlive(r, role) == {s \in AlivePlayers(r) : r.role[s] = role}
RoleReady(r, role) == RoleAlive(r, role) \cap r.night_actions_ready

NightComplete(r) ==
    \A role \in {"mafia", "doctor", "detective"} :
        Cardinality(RoleReady(r, role)) >= Cardinality(RoleAlive(r, role))

check_night_complete(r) ==
    IF NightComplete(r) THEN end_night_phase(r) ELSE Result(r, <<>>, FALSE, "same")

Error(to) == << Ev("error", to, None, None, "") >>
IsError(res) == res.out \in {Error(Caller), Error(Room)}

\* handlers that let the dead act
IsDeadNever(r, sid) == FALSE

\* "not player['alive']"
IsDead(r, sid) == ~r.alive[sid]

\* a handler that takes any number of actions from one actor
AlreadyActedNever(r, sid) == FALSE

\* "sid in room.get('night_actions_ready', {})"
AlreadyActed(r, sid) == sid \in r.night_actions_ready

\* an investigation that clears everybody
IsMafiaNever(r, target_sid) == FALSE

\* "is_mafia = target_role == 'mafia'"
IsMafia(r, target_sid) == r.role[target_sid] = "mafia"

\* on_night_action up to its call of check_night_complete
night_action_recorded(r, sid, action, target_sid) ==
    IF ~InRoom(r, sid) THEN Result(r, Error(Caller), FALSE, "same")
    ELSE IF ~InRoom(r, target_sid) THEN Result(r, Error(Caller), FALSE, "same")
    ELSE IF IsDead(r, sid) THEN Result(r, Error(Caller), FALSE, "same")
    ELSE IF AlreadyActed(r, sid) THEN Result(r, Error(Caller), FALSE, "same")
    ELSE IF r.role[sid] = "mafia" /\ action = "kill" THEN
        Result([r EXCEPT !.mafia_target = target_sid, !.night_actions_ready = @ \cup {sid}],
               << Ev("action_feedback", sid, sid, target_sid, "kill") >>, FALSE, "same")
    ELSE IF r.role[sid] = "doctor" /\ action = "heal" THEN
        Result([r EXCEPT !.doctor_target = target_sid, !.night_actions_ready = @ \cup {sid}],
               << Ev("action_feedback", sid, sid, target_sid, "heal") >>, FALSE, "same")
    ELSE IF r.role[sid] = "detective" /\ action = "investigate" THEN
        Result([r EXCEPT !.detective_target = target_sid, !.night_actions_ready = @ \cup {sid}],
               << Ev("investigation_result", sid, sid, target_sid,
                     IF IsMafia(r, target_sid) THEN "mafia" ELSE "innocent") >>, FALSE, "same")
    ELSE Result(r, Error(Caller), FALSE, "same")

on_night_action(r, sid, action, target_sid) ==
    LET a == night_action_recorded(r, sid, action, target_sid)
    IN  IF IsError(a) THEN a
        ELSE LET c == check_night_complete(a.room) IN [c EXCEPT !.out = a.out \o @]

------------------------------------------------------------------------------
\* ---- day

\* room['day_votes'][sid] = vote_for_sid on a dict kept in insertion order
PutVote(votes, sid, target) ==
    IF \E i \in DOMAIN votes : votes[i][1] = sid
    THEN [i \in DOMAIN votes |-> IF votes[i][1] = sid THEN <<sid, target>> ELSE votes[i]]
    ELSE Append(votes, <<sid, target>>)

VoteCount(votes, t) == Cardinality({i \in DOMAIN votes : votes[i][2] = t})
FirstVote(votes, t) == CHOOSE i \in DOMAIN votes :
    votes[i][2] = t /\ \A j \in DOMAIN votes : votes[j][2] = t => i <= j

\* a tally that executes whoever the vote recorded last names
MaxVotedLast(votes) == IF votes = <<>> THEN None ELSE votes[Len(votes)][2]

\* max(vote_counts, key=vote_counts.get): the first key, in the order the
\* tally met the targets, among those with the greatest count
MaxVoted(votes) ==
    IF votes = <<>> THEN None
    ELSE CHOOSE t \in {votes[i][2] : i \in DOMAIN votes} :
            \A u \in {votes[i][2] : i \in DOMAIN votes} :
                \/ VoteCount(votes, t) > VoteCount(votes, u)
                \/ VoteCount(votes, t) = VoteCount(votes, u)
                   /\ FirstVote(votes, t) <= FirstVote(votes, u)

end_game(r, winner, events) ==
    Result([r EXCEPT !.phase = PHASE_ENDED],
           events \o << Ev("game_ended", Room, None, None, winner) >>, FALSE, "ended")

\* day_outcome carries executed_sid (sid), the player executed_nickname names
\* (who: None for "Nobody") and executed_role (info)
end_day_phase(r) ==
    LET eliminated_sid == MaxVoted(r.day_votes)
        hit == eliminated_sid # None /\ InRoom(r, eliminated_sid)
        eliminated_role == IF hit THEN r.role[eliminated_sid] ELSE "none"
        r1 == IF hit THEN [r EXCEPT !.alive[eliminated_sid] = FALSE] ELSE r
        events == << Ev("phase_transition", Room, None, None, PHASE_NIGHT),
                     Ev("day_outcome", Room, eliminated_sid,
                        IF hit THEN eliminated_sid ELSE None, eliminated_role) >>
        winner == check_win_condition(r1)
    IN  IF winner # "none" THEN end_game(r1, winner, events)
        ELSE Result([r1 EXCEPT !.phase = PHASE_NIGHT,
                               !.round = @ + 1,
                               !.mafia_target = None,
                               !.doctor_target = None,
                               !.detective_target = None,
                               !.day_votes = <<>>,
                               !.night_actions_ready = {}],
                    events \o << Ev("phase_change", Room, None, None, PHASE_NIGHT) >>,
                    TRUE, "same")

\* on_day_vote up to its test of the number of votes
day_vote_recorded(r, sid, vote_for_sid) ==
    IF ~InRoom(r, sid) \/ ~InRoom(r, vote_for_sid) THEN Result(r, Error(Caller), FALSE, "same")
    ELSE IF IsDead(r, sid) THEN Result(r, Error(Caller), FALSE, "same")
    ELSE Result([r EXCEPT !.day_votes = PutVote(@, sid, vote_for_sid)],
                << Ev("vote_cast", Room, sid, vote_for_sid, ""),
                   Ev("vote_count", Room, None, None, "") >>, FALSE, "same")

\* "len(room['day_votes']) >= alive_count"
AllVoted(r) == Len(r.day_votes) >= Cardinality(AlivePlayers(r))

on_day_vote(r, sid, vote_for_sid) ==
    LET v == day_vote_recorded(r, sid, vote_for_sid)
    IN  IF IsError(v) THEN v
        ELSE IF AllVoted(v.room)
             THEN LET d == end_day_phase(v.room) IN [d EXCEPT !.out = v.out \o @]
             ELSE v

------------------------------------------------------------------------------
\* ---- lobby

\* room['players'][sid] = {... 'role': None, 'alive': True ...}: a key already
\* in the dict keeps its place, its record is replaced
on_join_room(r, sid) ==
    LET r1 == [r EXCEPT !.players = IF InRoom(r, sid) THEN @ ELSE Append(@, sid),
                        !.role[sid] = "none",
                        !.alive[sid] = TRUE]
    IN  Result(r1, << Ev("player_joined", Room, sid, None, "players") >>, FALSE, "same")

\* ---- chat: a transcript is the sequence of the senders of its messages

on_chat(r, sid) ==
    IF ~InRoom(r, sid) THEN Result(r, <<>>, FALSE, "same")
    ELSE IF r.phase # PHASE_DAY THEN Result(r, Error(Caller), FALSE, "same")
    ELSE Result([r EXCEPT !.public_chat = Append(@, sid)],
                << Ev("chat_message", Room, sid, None, "public") >>, FALSE, "same")

\* a delivery loop that leaves out the test of the alive flag
MafiaChatRecipientsDeadToo(r) == SelectSeq(r.players, LAMBDA p : r.role[p] = "mafia")

\* "if player_data['role'] == 'mafia' and player_data['alive']", in the order
\* of the players dict
MafiaChatRecipients(r) == SelectSeq(r.players, LAMBDA p : r.role[p] = "mafia" /\ r.alive[p])

on_mafia_chat(r, sid) ==
    IF ~InRoom(r, sid) THEN Result(r, <<>>, FALSE, "same")
    ELSE IF r.role[sid] # "mafia" \/ r.phase # PHASE_NIGHT THEN Result(r, Error(Caller), FALSE, "same")
    ELSE LET to == MafiaChatRecipients(r)
         IN  Result([r EXCEPT !.mafia_chat = Append(@, sid)],
                    [i \in DOMAIN to |-> Ev("mafia_chat_message", to[i], sid, None, "mafia")],
                    FALSE, "same")

\* del room['players'][sid]
RemovePlayer(r, sid) ==
    [r EXCEPT !.players = SelectSeq(@, LAMBDA x : x # sid),
              !.role[sid] = "none",
              !.alive[sid] = TRUE]

AssignRoles(r, roles) ==
    [r EXCEPT !.role = [s \in Sids |->
        IF InRoom(r, s) THEN roles[CHOOSE i \in DOMAIN r.players : r.players[i] = s] ELSE @[s]]]

RoleEvents(r) == [i \in DOMAIN r.players |-> Ev("role_assigned", r.players[i], r.players[i], None, r.role[r.players[i]])]

IsAuthorized(r, db_room, sid) ==
    LET first_player_sid == IF r.players # <<>> THEN r.players[1] ELSE None
    IN  db_room.host_id = sid \/ first_player_sid = sid

\* roles is what distribute_roles returned, shuffle included
on_start_game(r, db_room, sid, roles) ==
    IF ~IsAuthorized(r, db_room, sid) THEN Result(r, Error(Room), FALSE, "same")
    ELSE IF Len(r.players) < MinPlayers THEN Result(r, Error(Room), FALSE, "same")
    ELSE IF roles = <<>> THEN Result(r, Error(Room), FALSE, "same")
    ELSE LET r1 == [AssignRoles(r, roles) EXCEPT !.phase = PHASE_NIGHT, !.round = 1]
         IN  Result(r1, RoleEvents(r1) \o << Ev("game_started", Room, None, None, "players") >>,
                    TRUE, "playing")

------------------------------------------------------------------------------
\* ---- state

VARIABLES
    active_rooms,   \* room id -> room, for the ids in the registry
    db_rooms,       \* room id -> the GameRoom row
    out,            \* the events of the last handler that emitted other than an error
    conn,           \* sid -> "new" (in no room so far) or "here"
    disruptions,    \* leaves, re-joins, repeated starts and off-phase submissions so far
    kill_log,       \* history: sid -> the target of the kill that sid had accepted
                    \* since night_actions_ready was last emptied (None: no kill)
    countdowns,     \* room id -> the phase_timer_countdown tasks that are running,
                    \* each the phase it was started in, in the order they
                    \* were started.  Followed in SpecTimer; the other
                    \* specifications let a countdown run out whenever the room
                    \* holds a task (TimerFire) and keep no count
    resolving       \* room id -> the handlers that are in the socketio.sleep(3)
                    \* of end_night_phase ("night") or end_day_phase ("day").
                    \* Followed in SpecRace; the other specifications take a
                    \* handler in one step, sleep included

vars == <<active_rooms, db_rooms, out, conn, disruptions, kill_log, countdowns, resolving>>

NoTasks == [rid \in RoomIds |-> <<>>]

NoRow == [status |-> "absent", host_id |-> None,
          mafia_count |-> 0, detective_count |-> 0, doctor_count |-> 0]

\* host ids a client may send to create_room: none (a temp user is made, whose
\* id is no sid) or a connection's sid
HostIds == {None}

\* a mafia_count a client may send to create_room in place of the default
LargeMafia == DefaultMafia + 1

NoKills == [s \in Sids |-> None]

Init ==
    /\ active_rooms = <<>>
    /\ db_rooms = [rid \in RoomIds |-> NoRow]
    /\ out = <<>>
    /\ conn = [s \in Sids |-> "new"]
    /\ disruptions = 0
    /\ kill_log = NoKills
    /\ countdowns = NoTasks
    /\ resolving = NoTasks

Active(rid) == rid \in DOMAIN active_rooms
HasRow(rid) == db_rooms[rid].status \notin {"absent", "deleted"}

\* start_phase_timer on the room a handler leaves: the room holds a countdown
\* task from then on
start_phase_timer(r) == [r EXCEPT !.phase_timer = TRUE]

\* the kill submissions on record once a handler is through: an accepted kill
\* is added, and all are dropped with night_actions_ready
KillLog(res) ==
    IF res.room.night_actions_ready = {} THEN NoKills
    ELSE IF res.out # <<>> /\ res.out[1].ev = "action_feedback" /\ res.out[1].info = "kill"
         THEN [kill_log EXCEPT ![res.out[1].sid] = res.out[1].who]
         ELSE kill_log

\* write a handler's result back.  A request that is turned down gets an error
\* reply and leaves everything as it was: it is no step.
Commit(rid, res) ==
    /\ ~IsError(res)
    /\ res.out # <<>>
    /\ res.room.round <= MaxRound
    /\ active_rooms' = [active_rooms EXCEPT ![rid] =
           IF res.arm THEN start_phase_timer(res.room) ELSE res.room]
    /\ db_rooms' = IF res.status = "same" THEN db_rooms
                   ELSE [db_rooms EXCEPT ![rid].status = res.status]
    /\ out' = res.out
    /\ kill_log' = KillLog(res)

Disrupt(yes) ==
    /\ yes => disruptions < MaxDisruptions
    /\ disruptions' = IF yes THEN disruptions + 1 ELSE disruptions

------------------------------------------------------------------------------
\* ---- actions

CreateRoom(rid, host, mafia_count) ==
    /\ db_rooms[rid].status = "absent"
    /\ db_rooms' = [db_rooms EXCEPT ![rid] =
           [status |-> "waiting", host_id |-> host, mafia_count |-> mafia_count,
            detective_count |-> DefaultDetective, doctor_count |-> DefaultDoctor]]
    /\ UNCHANGED <<active_rooms, out, conn, disruptions, kill_log, countdowns, resolving>>

\* connections are interchangeable: the next one never seen is the lowest, and
\* a connection made after a disconnect takes the number of the one that went
CanJoin(sid) ==
    \/ conn[sid] = "here"
    \/ conn[sid] = "new" /\ \A s \in Sids : s < sid => conn[s] # "new"

JoinRoom(rid, sid) ==
    /\ CanJoin(sid)
    /\ HasRow(rid)
    /\ LET r == IF Active(rid) THEN active_rooms[rid] ELSE NewRoom
           res == on_join_room(r, sid)
       IN  /\ Disrupt(InRoom(r, sid) \/ db_rooms[rid].status # "waiting")
           /\ active_rooms' = [x \in DOMAIN active_rooms \cup {rid} |->
                                 IF x = rid THEN res.room ELSE active_rooms[x]]
           /\ out' = res.out
           /\ conn' = [conn EXCEPT ![sid] = "here"]
           /\ UNCHANGED <<db_rooms, kill_log, countdowns, resolving>>

\* a registry that keeps the rooms everybody has left
NoPlayersNever(r) == FALSE

\* "if not room['players']"
NoPlayers(r) == r.players = <<>>

\* the part handle_disconnect and on_leave_room share; the room is dropped
\* inside "if db_room:"
Depart(rid, sid) ==
    LET r1 == RemovePlayer(active_rooms[rid], sid)
    IN  /\ Disrupt(TRUE)
        /\ out' = << Ev("player_left", Room, None, None, "players") >>
        /\ IF HasRow(rid) /\ NoPlayers(r1)
           THEN /\ active_rooms' = [x \in DOMAIN active_rooms \ {rid} |-> active_rooms[x]]
                /\ db_rooms' = [db_rooms EXCEPT ![rid].status = "deleted"]
           ELSE /\ active_rooms' = [active_rooms EXCEPT ![rid] = r1]
                /\ UNCHANGED db_rooms

LeaveRoom(rid, sid) ==
    /\ conn[sid] = "here"
    /\ Active(rid) /\ InRoom(active_rooms[rid], sid)
    /\ Depart(rid, sid)
    /\ UNCHANGED <<conn, kill_log, countdowns, resolving>>

Disconnect(rid, sid) ==
    /\ conn[sid] = "here"
    /\ Active(rid) /\ InRoom(active_rooms[rid], sid)
    /\ Depart(rid, sid)
    /\ UNCHANGED <<conn, kill_log, countdowns, resolving>>

StartGame(rid, sid) ==
    /\ conn[sid] = "here"
    /\ Active(rid)
    /\ LET r == active_rooms[rid]
           db_room == db_rooms[rid]
           dealt == distribute_roles(Len(r.players), db_room.mafia_count,
                                     db_room.detective_count, db_room.doctor_count)
       IN  /\ ~IsError(on_start_game(r, db_room, sid, dealt))
           /\ Disrupt(db_room.status # "waiting")
           /\ \E roles \in Shuffles(dealt) :
                  Commit(rid, on_start_game(r, db_room, sid, roles))
           /\ UNCHANGED conn

NightAction(rid, sid, action, target_sid) ==
    /\ conn[sid] = "here"
    /\ Active(rid)
    /\ LET r == active_rooms[rid]
           res == on_night_action(r, sid, action, target_sid)
       IN  /\ Disrupt(r.phase # PHASE_NIGHT)
           /\ Commit(rid, res)
           /\ UNCHANGED conn

\* the order in which the votes of one day arrive: a first vote comes in after
\* those of the living players with lower sids
VoteInTurn(r, sid) ==
    \/ \E i \in DOMAIN r.day_votes : r.day_votes[i][1] = sid
    \/ \A s \in AlivePlayers(r) :
           s < sid => \E i \in DOMAIN r.day_votes : r.day_votes[i][1] = s

DayVote(rid, sid, vote_for_sid) ==
    /\ conn[sid] = "here"
    /\ Active(rid)
    /\ VoteInTurn(active_rooms[rid], sid)
    /\ LET r == active_rooms[rid]
           res == on_day_vote(r, sid, vote_for_sid)
       IN  /\ Disrupt(r.phase # PHASE_DAY)
           /\ Commit(rid, res)
           /\ UNCHANGED conn

\* phase_timer_countdown runs out
phase_timer_countdown(r) ==
    IF r.phase = PHASE_NIGHT THEN check_night_complete(r)
    ELSE IF r.phase = PHASE_DAY THEN end_day_phase(r)
    ELSE Result(r, <<>>, FALSE, "same")

\* a countdown may run out whenever the room has started one: which of the
\* countdowns started so far are still running is followed in SpecTimer only.
\* What the socketio library does with an emit made from the countdown's task
\* is not in the source: the countdown is taken as the source reads, one that
\* has run out calls the resolution of the phase
TimerFire(rid) ==
    /\ Active(rid)
    /\ active_rooms[rid].phase_timer
    /\ Commit(rid, phase_timer_countdown(active_rooms[rid]))
    /\ UNCHANGED <<conn, disruptions>>

\* a chat handler that appended to its transcript: what it emitted replaces out
SendChat(rid, sid, res) ==
    /\ conn[sid] = "here"
    /\ Active(rid)
    /\ Len(active_rooms[rid].public_chat) + Len(active_rooms[rid].mafia_chat) < MaxChat
    /\ ~IsError(res)
    /\ res.room # active_rooms[rid]
    /\ active_rooms' = [active_rooms EXCEPT ![rid] = res.room]
    /\ out' = res.out
    /\ UNCHANGED <<db_rooms, conn, disruptions, kill_log, countdowns, resolving>>

Chat(rid, sid) == SendChat(rid, sid, on_chat(active_rooms[rid], sid))

MafiaChat(rid, sid) == SendChat(rid, sid, on_mafia_chat(active_rooms[rid], sid))

\* a step of a specification that keeps no count of the countdowns and takes
\* a handler in one piece
Untimed == UNCHANGED <<countdowns, resolving>>

Next ==
    \/ \E rid \in RoomIds, host \in HostIds : CreateRoom(rid, host, DefaultMafia)
    \/ \E rid \in RoomIds, sid \in Sids : JoinRoom(rid, sid)
    \/ \E rid \in RoomIds, sid \in Sids : LeaveRoom(rid, sid)
    \/ \E rid \in RoomIds, sid \in Sids : Disconnect(rid, sid)
    \/ \E rid \in RoomIds, sid \in Sids : StartGame(rid, sid) /\ Untimed
    \/ \E rid \in RoomIds, sid \in Sids, action \in Actions, target_sid \in Targets :
           NightAction(rid, sid, action, target_sid) /\ Untimed
    \/ \E rid \in RoomIds, sid \in Sids, vote_for_sid \in Targets : DayVote(rid, sid, vote_for_sid) /\ Untimed
    \/ \E rid \in RoomIds : TimerFire(rid) /\ Untimed

Spec == Init /\ [][Next]_vars

\* the same program with rooms created for three mafia
NextLargeMafia ==
    \/ \E rid \in RoomIds, host \in HostIds : CreateRoom(rid, host, LargeMafia)
    \/ \E rid \in RoomIds, sid \in Sids : JoinRoom(rid, sid)
    \/ \E rid \in RoomIds, sid \in Sids : LeaveRoom(rid, sid)
    \/ \E rid \in RoomIds, sid \in Sids : Disconnect(rid, sid)
    \/ \E rid \in RoomIds, sid \in Sids : StartGame(rid, sid) /\ Untimed
    \/ \E rid \in RoomIds, sid \in Sids, action \in Actions, target_sid \in Targets :
           NightAction(rid, sid, action, target_sid) /\ Untimed
    \/ \E rid \in RoomIds, sid \in Sids, vote_for_sid \in Targets : DayVote(rid, sid, vote_for_sid) /\ Untimed
    \/ \E rid \in RoomIds : TimerFire(rid) /\ Untimed

SpecLargeMafia == Init /\ [][NextLargeMafia]_vars

\* the two chats in games that run their course: nobody leaves or joins again,
\* no game is started twice and every action and vote comes in its phase
Undisturbed == disruptions' = disruptions

NextChat ==
    \/ \E rid \in RoomIds, host \in HostIds : CreateRoom(rid, host, DefaultMafia)
    \/ \E rid \in RoomIds, sid \in Sids : Undisturbed /\ JoinRoom(rid, sid)
    \/ \E rid \in RoomIds, sid \in Sids : Undisturbed /\ StartGame(rid, sid) /\ Untimed
    \/ \E rid \in RoomIds, sid \in Sids, action \in Actions, target_sid \in Targets :
           Undisturbed /\ NightAction(rid, sid, action, target_sid) /\ Untimed
    \/ \E rid \in RoomIds, sid \in Sids, vote_for_sid \in Targets :
           Undisturbed /\ DayVote(rid, sid, vote_for_sid) /\ Untimed
    \/ \E rid \in RoomIds : TimerFire(rid) /\ Untimed
    \/ \E rid \in RoomIds, sid \in Sids : Chat(rid, sid)
    \/ \E rid \in RoomIds, sid \in Sids : MafiaChat(rid, sid)

SpecChat == Init /\ [][NextChat]_vars

------------------------------------------------------------------------------
\* ---- the countdowns, one by one

\* room['phase_timer'] holds what socketio.start_background_task returned, with
\* async_mode='threading' a thread that is already running.  What .cancel() does
\* to it is not in the source, and a thread has no such method: the call either
\* stops the countdown, as start_phase_timer takes it to, or it raises and
\* start_phase_timer goes no further, the countdown running on.
CancelOutcomes == {"stopped", "raised"}

\* the countdowns of a room after start_phase_timer: held says that the room
\* holds a task, which is the one started last
start_phase_timer_tasks(held, tasks, phase, cancel) ==
    IF held /\ cancel = "raised" THEN tasks
    ELSE LET kept == IF held /\ tasks # <<>> THEN SubSeq(tasks, 1, Len(tasks) - 1) ELSE tasks
         IN  Append(kept, phase)

\* the handlers that end in start_phase_timer are those that emit game_started
\* or phase_change
Timed(rid, cancel) ==
    /\ countdowns' = [countdowns EXCEPT ![rid] =
           IF Has(out', "game_started") \/ Has(out', "phase_change")
           THEN start_phase_timer_tasks(active_rooms[rid].phase_timer, @,
                                        active_rooms'[rid].phase, cancel)
           ELSE @]
    /\ UNCHANGED resolving

\* a countdown gets to the end of its loop: its last phase_time_update, then
\* the resolution of the phase the room is in, then the task is over
RunOut(rid, cancel) ==
    /\ Active(rid)
    /\ countdowns[rid] # <<>>
    /\ LET r == active_rooms[rid]
           res == phase_timer_countdown(r)
           rest == Tail(countdowns[rid])
       IN  /\ res.room.round <= MaxRound
           /\ active_rooms' = [active_rooms EXCEPT ![rid] =
                  IF res.arm THEN start_phase_timer(res.room) ELSE res.room]
           /\ db_rooms' = IF res.status = "same" THEN db_rooms
                          ELSE [db_rooms EXCEPT ![rid].status = res.status]
           /\ out' = << Ev("phase_time_update", Room, None, None, r.phase) >> \o res.out
           /\ kill_log' = KillLog(res)
           /\ countdowns' = [countdowns EXCEPT ![rid] =
                  IF res.arm
                  THEN start_phase_timer_tasks(r.phase_timer, rest, res.room.phase, cancel)
                  ELSE rest]
           /\ UNCHANGED <<conn, disruptions, resolving>>

\* games that run their course, as in NextChat
NextTimer ==
    \/ \E rid \in RoomIds, host \in HostIds : CreateRoom(rid, host, DefaultMafia)
    \/ \E rid \in RoomIds, sid \in Sids : Undisturbed /\ JoinRoom(rid, sid)
    \/ \E rid \in RoomIds, sid \in Sids :
           Undisturbed /\ StartGame(rid, sid) /\ \E cancel \in CancelOutcomes : Timed(rid, cancel)
    \/ \E rid \in RoomIds, sid \in Sids, action \in Actions, target_sid \in Targets :
           /\ Undisturbed /\ NightAction(rid, sid, action, target_sid)
           /\ \E cancel \in CancelOutcomes : Timed(rid, cancel)
    \/ \E rid \in RoomIds, sid \in Sids, vote_for_sid \in Targets :
           /\ Undisturbed /\ DayVote(rid, sid, vote_for_sid)
           /\ \E cancel \in CancelOutcomes : Timed(rid, cancel)
    \/ \E rid \in RoomIds, cancel \in CancelOutcomes : RunOut(rid, cancel)

SpecTimer == Init /\ [][NextTimer]_vars

------------------------------------------------------------------------------
\* ---- the registry with two rooms: creating, joining, leaving, disconnecting

TwoRoomIds == {"r1", "r2"}

InitRegistry ==
    /\ active_rooms = <<>>
    /\ db_rooms = [rid \in TwoRoomIds |-> NoRow]
    /\ out = <<>>
    /\ conn = [s \in Sids |-> "new"]
    /\ disruptions = 0
    /\ kill_log = NoKills
    /\ countdowns = [rid \in TwoRoomIds |-> <<>>]
    /\ resolving = [rid \in TwoRoomIds |-> <<>>]

\* handle_disconnect: the connection is taken out of every room it is in, and
\* each room it empties is dropped
DisconnectAll(sid) ==
    LET in == {rid \in DOMAIN active_rooms : InRoom(active_rooms[rid], sid)}
        emptied == {rid \in in : HasRow(rid) /\ NoPlayers(RemovePlayer(active_rooms[rid], sid))}
    IN  /\ conn[sid] = "here"
        /\ in # {}
        /\ Disrupt(TRUE)
        /\ active_rooms' = [rid \in DOMAIN active_rooms \ emptied |->
               IF rid \in in THEN RemovePlayer(active_rooms[rid], sid) ELSE active_rooms[rid]]
        /\ db_rooms' = [rid \in DOMAIN db_rooms |->
               IF rid \in emptied THEN [db_rooms[rid] EXCEPT !.status = "deleted"]
               ELSE db_rooms[rid]]
        /\ out' = [i \in 1..Cardinality(in) |-> Ev("player_left", Room, None, None, "players")]
        /\ UNCHANGED <<conn, kill_log, countdowns, resolving>>

NextRegistry ==
    \/ \E rid \in TwoRoomIds, host \in HostIds : CreateRoom(rid, host, DefaultMafia)
    \/ \E rid \in TwoRoomIds, sid \in Sids : JoinRoom(rid, sid)
    \/ \E rid \in TwoRoomIds, sid \in Sids : LeaveRoom(rid, sid)
    \/ \E sid \in Sids : DisconnectAll(sid)

SpecRegistry == InitRegistry /\ [][NextRegistry]_vars

------------------------------------------------------------------------------
\* ---- the resolutions with their sleep.  The server runs every handler in a
\* thread of its own (async_mode='threading'): while one sleeps in
\* end_night_phase or end_day_phase the others go on, on the room as the
\* sleeper left it.

MaxResolving == 2     \* handlers asleep in a resolution of one room

\* a handler that has recorded its action or vote (res) and goes on to a
\* resolution sends phase_transition and sleeps; one that does not is through
Records(rid, res, resolves, kind) ==
    /\ ~IsError(res)
    /\ resolves => Len(resolving[rid]) < MaxResolving
    /\ active_rooms' = [active_rooms EXCEPT ![rid] = res.room]
    /\ out' = IF resolves
              THEN res.out \o << Ev("phase_transition", Room, None, None,
                                    IF kind = "night" THEN PHASE_DAY ELSE PHASE_NIGHT) >>
              ELSE res.out
    /\ resolving' = IF resolves THEN [resolving EXCEPT ![rid] = Append(@, kind)] ELSE resolving
    /\ kill_log' = KillLog(res)
    /\ UNCHANGED <<db_rooms, conn, disruptions, countdowns>>

\* a night action sent in NIGHT
NightActionBegins(rid, sid, action, target_sid) ==
    /\ conn[sid] = "here"
    /\ Active(rid)
    /\ active_rooms[rid].phase = PHASE_NIGHT
    /\ LET res == night_action_recorded(active_rooms[rid], sid, action, target_sid)
       IN  Records(rid, res, ~IsError(res) /\ NightComplete(res.room), "night")

\* a day vote sent in DAY
DayVoteBegins(rid, sid, vote_for_sid) ==
    /\ conn[sid] = "here"
    /\ Active(rid)
    /\ active_rooms[rid].phase = PHASE_DAY
    /\ VoteInTurn(active_rooms[rid], sid)
    /\ LET res == day_vote_recorded(active_rooms[rid], sid, vote_for_sid)
       IN  Records(rid, res, ~IsError(res) /\ AllVoted(res.room), "day")

\* a sleeper wakes up and runs the rest of its resolution on the room as it
\* is by then
Wakes(rid) ==
    /\ Active(rid)
    /\ resolving[rid] # <<>>
    /\ LET r == active_rooms[rid]
           res == IF Head(resolving[rid]) = "night" THEN end_night_phase(r) ELSE end_day_phase(r)
       IN  /\ res.room.round <= MaxRound + 1
           /\ active_rooms' = [active_rooms EXCEPT ![rid] =
                  IF res.arm THEN start_phase_timer(res.room) ELSE res.room]
           /\ db_rooms' = IF res.status = "same" THEN db_rooms
                          ELSE [db_rooms EXCEPT ![rid].status = res.status]
           /\ out' = Tail(res.out)
           /\ kill_log' = KillLog(res)
           /\ resolving' = [resolving EXCEPT ![rid] = Tail(@)]
           /\ UNCHANGED <<conn, disruptions, countdowns>>

NextRace ==
    \/ \E rid \in RoomIds, host \in HostIds : CreateRoom(rid, host, DefaultMafia)
    \/ \E rid \in RoomIds, sid \in Sids : Undisturbed /\ JoinRoom(rid, sid)
    \/ \E rid \in RoomIds, sid \in Sids : Undisturbed /\ StartGame(rid, sid) /\ Untimed
    \/ \E rid \in RoomIds, sid \in Sids, action \in Actions, target_sid \in Targets :
           NightActionBegins(rid, sid, action, target_sid)
    \/ \E rid \in RoomIds, sid \in Sids, vote_for_sid \in Targets :
           DayVoteBegins(rid, sid, vote_for_sid)
    \/ \E rid \in RoomIds : Wakes(rid)

SpecRace == Init /\ [][NextRace]_vars

------------------------------------------------------------------------------
\* ---- the win check on its own: check_win_condition applied to any players dict

\* a players dict of 0..NumSids entries with any roles and alive flags
PlayerDicts ==
    {[NewRoom EXCEPT !.players = [i \in 1..n |-> i],
                     !.role = [s \in Sids |-> IF s <= n THEN role[s] ELSE "none"],
                     !.alive = [s \in Sids |-> IF s <= n THEN alive[s] ELSE TRUE]] :
        n \in 0..NumSids, role \in [Sids -> ROLES], alive \in [Sids -> BOOLEAN]}

InitWin ==
    /\ active_rooms \in [RoomIds -> PlayerDicts]
    /\ db_rooms = [rid \in RoomIds |-> NoRow]
    /\ out = <<>>
    /\ conn = [s \in Sids |-> "new"]
    /\ disruptions = 0
    /\ kill_log = NoKills
    /\ countdowns = NoTasks
    /\ resolving = NoTasks

\* winner = check_win_condition(room['players']); the players are only read
CheckWin(rid) ==
    /\ out = <<>>
    /\ out' = << Ev("winner", Caller, None, None, check_win_condition(active_rooms[rid])) >>
    /\ UNCHANGED <<active_rooms, db_rooms, conn, disruptions, kill_log, countdowns, resolving>>

NextWin == \E rid \in RoomIds : CheckWin(rid)

SpecWin == InitWin /\ [][NextWin]_vars

------------------------------------------------------------------------------
\* ---- the deal on its own: start_game on a lobby of any size whose room was
\* created with any quotas

\* the counts a client may send to create_room: int(data.get('mafia_count', 2))
\* and its likes take any integer
Quotas == (0 - 1)..MaxQuota

\* a lobby of n players who joined in the order of their sids
Lobby(n) == [NewRoom EXCEPT !.players = [i \in 1..n |-> i]]

\* the host of a room: a user that is no connection (the temp user create_room
\* makes), or the connection that joins last
HostRefs == {None, NumSids}

InitRoles ==
    \E n \in 1..NumSids, host_id \in HostRefs,
       mafia_count \in Quotas, detective_count \in Quotas, doctor_count \in Quotas :
        /\ active_rooms = [rid \in RoomIds |-> Lobby(n)]
        /\ db_rooms = [rid \in RoomIds |->
               [status |-> "waiting", host_id |-> host_id, mafia_count |-> mafia_count,
                detective_count |-> detective_count, doctor_count |-> doctor_count]]
        /\ out = <<>>
        /\ conn = [s \in Sids |-> IF s <= n THEN "here" ELSE "new"]
        /\ disruptions = 0
        /\ kill_log = NoKills
        /\ countdowns = NoTasks
        /\ resolving = NoTasks

NextRoles == \E rid \in RoomIds, sid \in Sids : StartGame(rid, sid) /\ Untimed

SpecRoles == InitRoles /\ [][NextRoles]_vars

------------------------------------------------------------------------------
\* ---- reading a step off the events it emitted.  A step that changes the
\* state leaves in out' the events of the handler that ran (CreateRoom, which
\* emits nothing, runs before any event).

\* the step ran end_day_phase / end_night_phase on room rid
DayResolved(rid) ==
    Has(out', "day_outcome") /\ Active(rid) /\ rid \in DOMAIN active_rooms' /\ vars' # vars
NightResolved(rid) ==
    Has(out', "night_outcome") /\ Active(rid) /\ rid \in DOMAIN active_rooms' /\ vars' # vars

\* the step took a night action / a day vote on room rid
NightActionTaken(rid) ==
    /\ Has(out', "action_feedback") \/ Has(out', "investigation_result")
    /\ Active(rid) /\ rid \in DOMAIN active_rooms' /\ vars' # vars
DayVoteTaken(rid) ==
    Has(out', "vote_cast") /\ Active(rid) /\ rid \in DOMAIN active_rooms' /\ vars' # vars

\* the game of room rid has been started and has not ended
Playing(rid) == db_rooms[rid].status = "playing"

\* the votes end_day_phase tallied in a step that resolved the day: those on
\* record, with the vote of this step if a vote brought the resolution about
Tallied(rid) ==
    IF Has(out', "vote_cast")
    THEN PutVote(active_rooms[rid].day_votes, The(out', "vote_cast").sid, The(out', "vote_cast").who)
    ELSE active_rooms[rid].day_votes

\* the targets no other target has more votes than
Leaders(votes) ==
    {t \in {votes[i][2] : i \in DOMAIN votes} :
        \A u \in {votes[i][2] : i \in DOMAIN votes} : VoteCount(votes, t) >= VoteCount(votes, u)}

------------------------------------------------------------------------------
\* ---- day resolution

\* C1: when the day of a running game is resolved with two or more targets
\* sharing the highest vote count, or with no vote cast, no alive flag changes
\* and day_outcome names no executed player.
TieEliminatesNoOne ==
    [][\A rid \in RoomIds :
         (Playing(rid) /\ DayResolved(rid) /\ Cardinality(Leaders(Tallied(rid))) # 1) =>
            /\ active_rooms'[rid].alive = active_rooms[rid].alive
            /\ The(out', "day_outcome").sid = None
            /\ The(out', "day_outcome").who = None]_vars

\* what C2 says of a day resolved with t alone at the top of the tally
PluralityExecutes(rid, t) ==
    /\ active_rooms'[rid].alive[t] = FALSE
    /\ \A s \in Sids \ {t} : active_rooms'[rid].alive[s] = active_rooms[rid].alive[s]
    /\ The(out', "day_outcome").sid = t
    /\ The(out', "day_outcome").who = t
    /\ The(out', "day_outcome").info = active_rooms[rid].role[t]

\* C2 as stated: when exactly one target has strictly more votes than every
\* other at day resolution, that target's alive flag becomes false, no other
\* player is eliminated, and day_outcome names that player and their role.
PluralityEliminatesTarget ==
    [][\A rid \in RoomIds :
         DayResolved(rid) =>
            \A t \in Sids : Leaders(Tallied(rid)) = {t} => PluralityExecutes(rid, t)]_vars

\* C2: when exactly one target has strictly more votes than every other at day
\* resolution and that target is still a player of the room, its alive flag
\* becomes false, no other player is eliminated, and day_outcome names it and
\* its role; when that target has left the room, no alive flag changes and
\* day_outcome carries its sid with no nickname and no role.
PluralityEliminatesPresentTarget ==
    [][\A rid \in RoomIds :
         DayResolved(rid) =>
            \A t \in Sids : Leaders(Tallied(rid)) = {t} =>
                IF InRoom(active_rooms[rid], t)
                THEN PluralityExecutes(rid, t)
                ELSE /\ active_rooms'[rid].alive = active_rooms[rid].alive
                     /\ The(out', "day_outcome").sid = t
                     /\ The(out', "day_outcome").who = None
                     /\ The(out', "day_outcome").info = "none"]_vars

\* a game that ran without a disruption and that a two-to-one vote has just
\* ended: the target of the two votes is dead and day_outcome names it
PluralityEliminated ==
    \E rid \in RoomIds : Active(rid) /\ disruptions = 0 /\
        LET r == active_rooms[rid] IN
        \E t \in Sids :
            /\ r.phase = PHASE_ENDED
            /\ Has(out, "day_outcome") /\ The(out, "day_outcome").who = t
            /\ Leaders(r.day_votes) = {t}
            /\ VoteCount(r.day_votes, t) = 2 /\ Len(r.day_votes) = 3
            /\ InRoom(r, t) /\ ~r.alive[t]

------------------------------------------------------------------------------
\* ---- the win check

\* the verdict C3 gives for a players dict
ClaimedWinner(r) ==
    IF MafiaAlive(r) = 0 THEN "villagers"
    ELSE IF MafiaAlive(r) >= VillagersAlive(r) THEN "mafia"
    ELSE "none"

\* C3: for every players dict check_win_condition returns 'villagers' when no
\* mafia is alive (also when nobody is alive), else 'mafia' when the living
\* mafia are at least as many as the living others, else no winner, and the
\* dict is as it was.
WinCheckAsClaimed ==
    \A rid \in RoomIds :
        Has(out, "winner") =>
            /\ The(out, "winner").info = ClaimedWinner(active_rooms[rid])
            /\ active_rooms[rid] \in PlayerDicts

\* C4: after every night resolution of a running game the win check decides
\* the phase: with a winner on the resulting living set the phase is ENDED, and
\* the phase is DAY only without a winner.
NightResolutionChecksWin ==
    [][\A rid \in RoomIds :
         (Playing(rid) /\ NightResolved(rid)) =>
            LET winner == check_win_condition(active_rooms'[rid])
            IN  /\ winner # "none" => active_rooms'[rid].phase = PHASE_ENDED
                /\ active_rooms'[rid].phase = PHASE_DAY => winner = "none"]_vars

------------------------------------------------------------------------------
\* ---- night resolution

\* the kill and heal targets end_night_phase read in a step that resolved the
\* night: those on record, or the one an action of this step has just recorded
Killed(rid) == The(out', "phase_change").sid
Healed(rid) ==
    IF Has(out', "action_feedback") /\ The(out', "action_feedback").info = "heal"
    THEN The(out', "action_feedback").who
    ELSE active_rooms[rid].doctor_target

\* what C5 says of a night resolved with kill target k and heal target h
KillUnlessHealed(rid, k, h) ==
    IF h = k
    THEN /\ active_rooms'[rid].alive = active_rooms[rid].alive
         /\ The(out', "night_outcome").info = "everyone_survived"
         /\ The(out', "night_outcome").sid = None
    ELSE /\ active_rooms'[rid].alive = [active_rooms[rid].alive EXCEPT ![k] = FALSE]
         /\ The(out', "night_outcome").info = "found_dead"
         /\ The(out', "night_outcome").sid = k
         /\ The(out', "night_outcome").who = k

\* C5 as stated: at night resolution the kill target's alive flag becomes false
\* if and only if the heal target is another player; with heal target equal to
\* kill target nobody dies and the broadcast says everyone survived, otherwise
\* the broadcast names the killed player.
KillLandsUnlessHealed ==
    [][\A rid \in RoomIds :
         (NightResolved(rid) /\ Killed(rid) # None) =>
            KillUnlessHealed(rid, Killed(rid), Healed(rid))]_vars

\* C5: at night resolution, a kill target that is still a player of the room
\* has its alive flag set to false if and only if the heal target is another
\* player; with heal target equal to kill target nobody dies and the broadcast
\* says everyone survived, otherwise the broadcast names the killed player.  A
\* kill target that has left the room changes no alive flag, and unless it was
\* healed the broadcast says that "Nobody" was found dead.
KillLandsOnPresentTargetUnlessHealed ==
    [][\A rid \in RoomIds :
         (NightResolved(rid) /\ Killed(rid) # None) =>
            IF InRoom(active_rooms[rid], Killed(rid))
            THEN KillUnlessHealed(rid, Killed(rid), Healed(rid))
            ELSE /\ active_rooms'[rid].alive = active_rooms[rid].alive
                 /\ The(out', "night_outcome").who = None
                 /\ IF Healed(rid) = Killed(rid)
                    THEN /\ The(out', "night_outcome").info = "everyone_survived"
                         /\ The(out', "night_outcome").sid = None
                    ELSE /\ The(out', "night_outcome").info = "found_dead"
                         /\ The(out', "night_outcome").sid = Killed(rid)]_vars

\* the day after a night of a game running without a disruption, in which the
\* kill landed although a doctor was alive to heal: the broadcast names the
\* dead player
KillLanded ==
    \E rid \in RoomIds : Active(rid) /\ Playing(rid) /\ disruptions = 0 /\
        LET r == active_rooms[rid] IN
        \E k \in Sids :
            /\ r.phase = PHASE_DAY
            /\ Has(out, "night_outcome") /\ The(out, "night_outcome").who = k
            /\ InRoom(r, k) /\ ~r.alive[k]
            /\ RoleAlive(r, "doctor") # {}

\* the kills the mafia had submitted when a step resolved the night
KillsSubmitted(rid) ==
    IF Has(out', "action_feedback") /\ The(out', "action_feedback").info = "kill"
    THEN [kill_log EXCEPT ![The(out', "action_feedback").sid] = The(out', "action_feedback").who]
    ELSE kill_log

Submissions(log, t) == Cardinality({s \in Sids : log[s] = t})

\* C6: the kill target a running game uses at night resolution is a target no
\* other target has more mafia submissions than.
KillTargetHasMostSubmissions ==
    [][\A rid \in RoomIds :
         (Playing(rid) /\ NightResolved(rid) /\ Killed(rid) # None) =>
            \A t \in Sids :
                Submissions(KillsSubmitted(rid), Killed(rid)) >= Submissions(KillsSubmitted(rid), t)]_vars

------------------------------------------------------------------------------
\* ---- requests that are turned down

\* the handler's answer to a request it turns down: an error to the caller, the
\* room as it was, no timer, no status written
TurnedDown(r) == Result(r, Error(Caller), FALSE, "same")

\* the player whose night action or day vote a step took
Actor == out'[1].sid

\* C7: a night_action or a day_vote from a player whose alive flag is false is
\* turned down whatever it asks for, leaving every field of the room as it was;
\* so no step takes an action or a vote of a dead player, and none is there for
\* a later resolution to read.
DeadAreTurnedDown ==
    /\ [](\A rid \in RoomIds : Active(rid) =>
            LET r == active_rooms[rid] IN
            \A sid \in Sids : (InRoom(r, sid) /\ ~r.alive[sid]) =>
                \A t \in Sids :
                    /\ \A a \in Actions : on_night_action(r, sid, a, t) = TurnedDown(r)
                    /\ on_day_vote(r, sid, t) = TurnedDown(r))
    /\ [][\A rid \in RoomIds :
            (NightActionTaken(rid) \/ DayVoteTaken(rid)) => active_rooms[rid].alive[Actor]]_vars

\* a mafia player who died in the first round of a game running without a
\* disruption, in the night of the second round, naming a player of the room:
\* the kill and the vote that are turned down would both be taken from a living
\* player
DeadMafiaAtNight ==
    \E rid \in RoomIds : Active(rid) /\ Playing(rid) /\ disruptions = 0 /\
        LET r == active_rooms[rid] IN
        \E sid \in Sids, t \in Sids :
            /\ r.phase = PHASE_NIGHT /\ r.round = 2
            /\ InRoom(r, sid) /\ ~r.alive[sid] /\ r.role[sid] = "mafia"
            /\ IsError(on_night_action(r, sid, "kill", t))
            /\ IsError(on_day_vote(r, sid, t))
            /\ ~IsError(on_night_action([r EXCEPT !.alive[sid] = TRUE], sid, "kill", t))
            /\ ~IsError(on_day_vote([r EXCEPT !.alive[sid] = TRUE], sid, t))

\* C8: a night_action from an actor in night_actions_ready, which holds the
\* actors whose action was taken since the night began, is turned down and
\* leaves the room as it was: no target is overwritten, night_actions_ready is
\* the same and no resolution runs.  An actor whose action a step takes was not
\* in night_actions_ready and is in it afterwards unless that step resolved the
\* night.
SecondActionIsTurnedDown ==
    /\ [](\A rid \in RoomIds : Active(rid) =>
            LET r == active_rooms[rid] IN
            \A sid \in r.night_actions_ready : \A a \in Actions, t \in Sids :
                on_night_action(r, sid, a, t) = TurnedDown(r))
    /\ [][\A rid \in RoomIds :
            NightActionTaken(rid) =>
                /\ Actor \notin active_rooms[rid].night_actions_ready
                /\ \/ Actor \in active_rooms'[rid].night_actions_ready
                   \/ NightResolved(rid)]_vars

\* a living mafia player in a night of a game running without a disruption,
\* whose kill has been taken while the night goes on: a second kill, at another
\* target, is turned down only for the first
SecondKillAtNight ==
    \E rid \in RoomIds : Active(rid) /\ Playing(rid) /\ disruptions = 0 /\
        LET r == active_rooms[rid] IN
        \E sid \in Sids, t \in Sids :
            /\ r.phase = PHASE_NIGHT
            /\ InRoom(r, sid) /\ r.alive[sid] /\ r.role[sid] = "mafia"
            /\ sid \in r.night_actions_ready /\ kill_log[sid] # None
            /\ t # r.mafia_target
            /\ IsError(on_night_action(r, sid, "kill", t))
            /\ ~IsError(on_night_action([r EXCEPT !.night_actions_ready = @ \ {sid}], sid, "kill", t))

\* C9: in a running game no step takes a day_vote while the phase is not DAY,
\* nor a night_action while the phase is not NIGHT.
WrongPhaseIsTurnedDown ==
    [][\A rid \in RoomIds :
         Playing(rid) =>
            /\ DayVoteTaken(rid) => active_rooms[rid].phase = PHASE_DAY
            /\ NightActionTaken(rid) => active_rooms[rid].phase = PHASE_NIGHT]_vars

\* C10: once the phase of a room is ENDED, no step other than a player joining
\* or leaving (a night_action, a day_vote, a start_game, a timer running out)
\* changes the phase, the round or an alive flag, and none takes a night action
\* or a day vote.
EndedIsTerminal ==
    [][\A rid \in RoomIds :
         ( /\ Active(rid) /\ rid \in DOMAIN active_rooms'
           /\ active_rooms[rid].phase = PHASE_ENDED
           /\ ~Has(out', "player_joined") /\ ~Has(out', "player_left") ) =>
            /\ active_rooms'[rid].phase = PHASE_ENDED
            /\ active_rooms'[rid].round = active_rooms[rid].round
            /\ active_rooms'[rid].alive = active_rooms[rid].alive
            /\ ~NightActionTaken(rid)
            /\ ~DayVoteTaken(rid)]_vars

------------------------------------------------------------------------------
\* ---- round and alive flags

\* C11: in a running game the round of a room never decreases, it grows by
\* exactly 1 on every step that takes the room from DAY to NIGHT, and it
\* changes on no other step.
RoundCountsNights ==
    [][\A rid \in RoomIds :
         (Playing(rid) /\ Active(rid) /\ rid \in DOMAIN active_rooms') =>
            LET r == active_rooms[rid]
                r2 == active_rooms'[rid]
            IN  /\ r2.round >= r.round
                /\ r2.round # r.round =>
                      r2.round = r.round + 1 /\ r.phase = PHASE_DAY /\ r2.phase = PHASE_NIGHT
                /\ (r.phase = PHASE_DAY /\ r2.phase = PHASE_NIGHT) => r2.round = r.round + 1]_vars

\* C12: the alive flag of a player who stays in the room never goes from false
\* back to true.
AliveNeverReverts ==
    [][\A rid \in RoomIds :
         (Active(rid) /\ rid \in DOMAIN active_rooms') =>
            \A sid \in Sids :
                ( /\ InRoom(active_rooms[rid], sid) /\ InRoom(active_rooms'[rid], sid)
                  /\ ~active_rooms[rid].alive[sid] ) => ~active_rooms'[rid].alive[sid]]_vars

------------------------------------------------------------------------------
\* ---- the deal

\* the step started the game of room rid
GameStarted(rid) ==
    Has(out', "game_started") /\ Active(rid) /\ rid \in DOMAIN active_rooms' /\ vars' # vars

\* the tokens distribute_roles makes for the room as it is configured
Dealt(r, db_room) ==
    distribute_roles(Len(r.players), db_room.mafia_count, db_room.detective_count,
                     db_room.doctor_count)

Holders(r, role) == {s \in Range(r.players) : r.role[s] = role}

\* C13: for every player count N >= 4 and the quotas of every room
\* distribute_roles makes exactly N role tokens, and a start_game that is
\* accepted leaves every player of the room with one role, as many players
\* with each role as there are tokens of it for N and the configuration.
EveryPlayerIsDealtOneToken ==
    /\ [](\A rid \in RoomIds, n \in MinPlayers..MaxPlayers :
            LET roles == distribute_roles(n, db_rooms[rid].mafia_count,
                                          db_rooms[rid].detective_count, db_rooms[rid].doctor_count)
            IN  Len(roles) = n /\ \A i \in DOMAIN roles : roles[i] \in ROLES)
    /\ [][\A rid \in RoomIds : GameStarted(rid) =>
            LET r2 == active_rooms'[rid]
                dealt == Dealt(r2, db_rooms'[rid])
            IN  /\ Len(r2.players) >= MinPlayers
                /\ Len(dealt) = Len(r2.players)
                /\ \A s \in Range(r2.players) : r2.role[s] \in ROLES
                /\ \A role \in ROLES : Cardinality(Holders(r2, role)) = Count(dealt, role)]_vars

\* a game started in a room whose quotas exceed the players: the caps applied
DealtUnderCaps ==
    \E rid \in RoomIds :
        /\ Active(rid) /\ Has(out, "game_started") /\ disruptions = 0
        /\ db_rooms[rid].mafia_count > Len(active_rooms[rid].players)
        /\ db_rooms[rid].detective_count > 1
        /\ Cardinality(Holders(active_rooms[rid], "mafia")) = Len(active_rooms[rid].players) - 1
        /\ Cardinality(Holders(active_rooms[rid], "detective")) = 1

\* C14: in a game that has just been started at least one player is mafia and
\* the mafia are fewer than half of the players.
MafiaAreFewerThanHalf ==
    \A rid \in RoomIds :
        (Active(rid) /\ Has(out, "game_started")) =>
            LET mafia == Cardinality(Holders(active_rooms[rid], "mafia"))
            IN  mafia >= 1 /\ 2 * mafia < Len(active_rooms[rid].players)

\* C15: a start_game is only accepted from the designated host of the room,
\* the one its host_id names, and only when the room holds at least MinPlayers
\* players.
OnlyTheHostStarts ==
    [][\A rid \in RoomIds, sid \in Sids :
          StartGame(rid, sid) =>
              /\ db_rooms[rid].host_id = sid
              /\ Len(active_rooms[rid].players) >= MinPlayers]_vars

------------------------------------------------------------------------------
\* ---- who gets to see what

\* the events whose payload has 'players': room['players'], the dict with the
\* role of every player in it
PlayersDictEvents == {"game_started", "phase_change", "player_joined", "player_left", "game_ended"}

\* the players of room r an event is delivered to
Recipients(e, r) == IF e.to = Room THEN Range(r.players) ELSE {e.to} \cap Range(r.players)

\* the payload of event e has the role of player q in it
ShowsRoleOf(e, r, q) ==
    \/ e.ev \in PlayersDictEvents /\ r.role[q] # "none"
    \/ e.ev = "role_assigned" /\ e.sid = q
    \/ e.ev = "day_outcome" /\ e.who = q

\* C16: no event other than investigation_result is delivered to a player
\* with the role of another player in it who is alive.
RolesStayPrivate ==
    \A rid \in RoomIds : Active(rid) =>
        LET r == active_rooms[rid]
        IN  \A i \in DOMAIN out :
                out[i].ev # "investigation_result" =>
                    \A p \in Recipients(out[i], r), q \in AlivePlayers(r) :
                        q # p => ~ShowsRoleOf(out[i], r, q)

\* the step took an investigation on room rid
Investigated(rid) ==
    Has(out', "investigation_result") /\ Active(rid) /\ rid \in DOMAIN active_rooms' /\ vars' # vars

\* C17: every investigation that is accepted comes from a living detective and
\* sends one investigation_result, to the detective who submitted it and to
\* nobody else, that says "mafia" exactly when the role of the target at the
\* time of the submission is mafia, whether or not the night is resolved in
\* the same step.
InvestigationIsTruthfulAndPrivate ==
    [][\A rid \in RoomIds : Investigated(rid) =>
          LET r == active_rooms[rid]
              e == The(out', "investigation_result")
          IN  /\ Cardinality({i \in DOMAIN out' : out'[i].ev = "investigation_result"}) = 1
              /\ r.role[e.sid] = "detective" /\ r.alive[e.sid]
              /\ e.to = e.sid
              /\ e.info \in {"mafia", "innocent"}
              /\ e.info = "mafia" <=> r.role[e.who] = "mafia"]_vars

\* the last action of a night is the investigation of a mafia member: the
\* result is sent and the night is resolved in the same step
MafiaFoundAsNightEnds ==
    \E rid \in RoomIds :
        /\ Active(rid) /\ disruptions = 0
        /\ Has(out, "investigation_result") /\ Has(out, "night_outcome")
        /\ The(out, "investigation_result").info = "mafia"
        /\ The(out, "investigation_result").to \in RoleAlive(active_rooms[rid], "detective")

------------------------------------------------------------------------------
\* ---- chat

\* the step appended a message to the faction / the public transcript of rid
MafiaChatSent(rid) ==
    /\ Active(rid) /\ rid \in DOMAIN active_rooms'
    /\ active_rooms'[rid].mafia_chat # active_rooms[rid].mafia_chat
PublicChatSent(rid) ==
    /\ Active(rid) /\ rid \in DOMAIN active_rooms'
    /\ active_rooms'[rid].public_chat # active_rooms[rid].public_chat

Last(seq) == seq[Len(seq)]

\* C18: a faction chat message that is accepted is delivered to nobody but
\* players of the room who are mafia and alive when it is sent: never to the
\* room, never to a player who is dead or has another role.
MafiaChatReachesLivingMafiaOnly ==
    [][\A rid \in RoomIds : MafiaChatSent(rid) =>
          /\ out' # <<>>
          /\ \A i \in DOMAIN out' :
                /\ out'[i].ev = "mafia_chat_message"
                /\ out'[i].to \in RoleAlive(active_rooms[rid], "mafia")]_vars

\* a faction message sent in a night in which one of the mafia is dead
MafiaChatPastDeadMafia ==
    \E rid \in RoomIds :
        /\ Active(rid) /\ Playing(rid) /\ Has(out, "mafia_chat_message")
        /\ active_rooms[rid].mafia_chat # <<>>
        /\ \E s \in Range(active_rooms[rid].players) :
              active_rooms[rid].role[s] = "mafia" /\ ~active_rooms[rid].alive[s]

\* C19: a chat message is only taken, that is appended to a transcript and
\* sent out, from a sender who is alive, on the public channel in DAY, on the
\* faction channel in NIGHT and from a mafia member.
ChatOnlyFromTheLivingInPhase ==
    [][\A rid \in RoomIds :
          /\ PublicChatSent(rid) =>
                /\ active_rooms[rid].alive[Last(active_rooms'[rid].public_chat)]
                /\ active_rooms[rid].phase = PHASE_DAY
          /\ MafiaChatSent(rid) =>
                /\ active_rooms[rid].alive[Last(active_rooms'[rid].mafia_chat)]
                /\ active_rooms[rid].phase = PHASE_NIGHT
                /\ active_rooms[rid].role[Last(active_rooms'[rid].mafia_chat)] = "mafia"]_vars

------------------------------------------------------------------------------
\* ---- phase timer

\* the step ran start_phase_timer on room rid
Armed(rid) ==
    /\ Has(out', "game_started") \/ Has(out', "phase_change")
    /\ Active(rid) /\ rid \in DOMAIN active_rooms' /\ vars' # vars

\* C20: a room never has more than one countdown running, and every step that
\* arms the timer of a room leaves it with one countdown, the one started in
\* this step for the phase the room is now in: what was armed before is gone.
ArmingReplacesTheCountdown ==
    /\ [](\A rid \in RoomIds : Len(countdowns[rid]) <= 1)
    /\ [][\A rid \in RoomIds : Armed(rid) =>
             countdowns'[rid] = << active_rooms'[rid].phase >>]_vars

\* the step is a countdown of room rid getting to its end
RanOut(rid) ==
    /\ Has(out', "phase_time_update")
    /\ Active(rid) /\ rid \in DOMAIN active_rooms' /\ vars' # vars

\* C21: a countdown that runs out in the phase it was started for, NIGHT or
\* DAY, ends that phase, whoever has or has not submitted: the room is in
\* another phase afterwards.
ExpiryEndsThePhase ==
    [][\A rid \in RoomIds :
          ( /\ RanOut(rid)
            /\ countdowns[rid] # <<>>
            /\ Head(countdowns[rid]) = active_rooms[rid].phase
            /\ active_rooms[rid].phase \in {PHASE_NIGHT, PHASE_DAY} )
          => active_rooms'[rid].phase # active_rooms[rid].phase]_vars

------------------------------------------------------------------------------
\* ---- registry

OneRoomPerPlayer ==
    \A a \in DOMAIN active_rooms, b \in DOMAIN active_rooms :
        a # b => Range(active_rooms[a].players) \cap Range(active_rooms[b].players) = {}

------------------------------------------------------------------------------
\* ---- one resolution per phase

\* C24: a night or a day is resolved once: end_day_phase gets to its tally
\* only in a room that is in DAY and end_night_phase to its kill only in a
\* room that is in NIGHT, so that no resolution is run on a phase that another
\* run has already taken the room out of, and a resolution of a day adds no
\* more than 1 to the round that the day began with.
ResolvedOncePerPhase ==
    [][\A rid \in RoomIds :
          /\ DayResolved(rid) => active_rooms[rid].phase = PHASE_DAY
          /\ NightResolved(rid) => active_rooms[rid].phase = PHASE_NIGHT]_vars

------------------------------------------------------------------------------
\* ---- stale countdowns

\* the step resolved a phase of room rid from a handler, no countdown ran out
ResolvedByRequest(rid) ==
    /\ DayResolved(rid) \/ NightResolved(rid)
    /\ ~Has(out', "phase_time_update")

\* C25: a phase that the players' submissions resolve leaves no countdown of
\* that phase running, only the one started for the phase the room goes to;
\* and a countdown that runs out in a room that is no longer in the phase the
\* countdown was started for resolves nothing.
StaleCountdownResolvesNothing ==
    [][\A rid \in RoomIds :
          /\ ResolvedByRequest(rid) =>
                \A i \in DOMAIN countdowns'[rid] :
                    countdowns'[rid][i] = active_rooms'[rid].phase
          /\ ( /\ RanOut(rid)
               /\ countdowns[rid] # <<>>
               /\ Head(countdowns[rid]) # active_rooms[rid].phase )
             => ~DayResolved(rid) /\ ~NightResolved(rid)]_vars

------------------------------------------------------------------------------
\* ---- the lobby

\* room rid is in the registry and no start_game has succeeded on it yet
InLobby(rid) == Active(rid) /\ db_rooms[rid].status = "waiting"

\* C26: until a start_game succeeds, a room is not being played: a step on a
\* room in the lobby that is not the start of its game takes no night action
\* and no day vote, runs no resolution, turns no alive flag to false and does
\* not leave the room ENDED.
LobbyIsInert ==
    [][\A rid \in RoomIds :
          (InLobby(rid) /\ rid \in DOMAIN active_rooms' /\ ~GameStarted(rid)) =>
              /\ ~NightActionTaken(rid) /\ ~DayVoteTaken(rid)
              /\ ~NightResolved(rid) /\ ~DayResolved(rid)
              /\ \A s \in Sids : active_rooms[rid].alive[s] => active_rooms'[rid].alive[s]
              /\ active_rooms'[rid].phase # PHASE_ENDED]_vars

------------------------------------------------------------------------------
\* ---- the votes that end a day

HasVote(votes, s) == \E i \in DOMAIN votes : votes[i][1] = s

\* C27: a day vote that ends the day is the vote that was missing: when a
\* day_vote taken in DAY runs end_day_phase, every player of the room who is
\* alive has a vote among those tallied, whoever has left the room meanwhile.
DayEndsWhenAllHaveVoted ==
    [][\A rid \in RoomIds :
          ( /\ DayVoteTaken(rid) /\ DayResolved(rid)
            /\ active_rooms[rid].phase = PHASE_DAY ) =>
              \A s \in AlivePlayers(active_rooms[rid]) : HasVote(Tallied(rid), s)]_vars

------------------------------------------------------------------------------
\* ---- whom a vote may name

\* C28: a day vote names a living player: no day_vote that names a player
\* whose alive flag is false is taken, and the player a day_outcome names as
\* executed was alive when that resolution began.
VotesNameTheLiving ==
    [][\A rid \in RoomIds :
          /\ DayVoteTaken(rid) =>
                active_rooms[rid].alive[The(out', "vote_cast").who]
          /\ (DayResolved(rid) /\ The(out', "day_outcome").sid # None) =>
                active_rooms[rid].alive[The(out', "day_outcome").sid]]_vars

------------------------------------------------------------------------------
\* ---- the roles of a game under way

\* C29: while a game is being played its roles stand: a step on a room whose
\* game has started and not ended leaves every player who stays in the room
\* with the role they had, and leaves among the living players of the room,
\* those the tally and check_win_condition count, nobody without a role.
RolesAreFixed ==
    [][\A rid \in RoomIds :
          (Active(rid) /\ Playing(rid) /\ rid \in DOMAIN active_rooms') =>
              /\ \A s \in Range(active_rooms[rid].players) \cap Range(active_rooms'[rid].players) :
                    active_rooms'[rid].role[s] = active_rooms[rid].role[s]
              /\ \A s \in AlivePlayers(active_rooms'[rid]) :
                    active_rooms'[rid].role[s] # "none"]_vars

==============================================================================
